---- MODULE Spec2Model ----
(***************************************************************************)
(* LookSee (app/src/looksee.py): ingestion of a tabular source into one    *)
(* named DuckDB table, memoised by functools.cache, followed by metadata   *)
(* extraction and per-column summaries.  The SQL engine is an external     *)
(* collaborator; it is modelled by what its statements answer for a small  *)
(* catalogue of file contents.                                             *)
(***************************************************************************)
EXTENDS Integers, Sequences, FiniteSets, TLC

VARIABLES
    fs,         \* content currently stored at the temporary upload path
    table,      \* the table held under self.table_name (NoTable when absent)
    memo,       \* the functools.cache of ingest_data: set of <<args, result>>
    metadata,   \* self.metadata: held is FALSE until the first extraction
    lastIngest, \* the most recent ingest_data call: arguments, result, engine calls
    lastQuery,  \* the most recent extraction or summary since that call
    firstArgs,  \* history: <<args, result>> of the first call per argument list
    firstPair   \* history: <<pair, result>> of the first call per (path, name)

vars == <<fs, table, memo, metadata, lastIngest, lastQuery, firstArgs, firstPair>>

----------------------------------------------------------------------------
(* Strings the code takes apart are sequences of one-character strings.    *)

\* Python's None, as an argument value distinct from every string
None == <<"<None>">>

\* SQL NULL (and the None the driver returns for it); data values are >= 0
NULL == -1

UpperCase == <<"A","B","C","D","E","F","G","H","I","J","K","L","M",
               "N","O","P","Q","R","S","T","U","V","W","X","Y","Z">>
LowerCase == <<"a","b","c","d","e","f","g","h","i","j","k","l","m",
               "n","o","p","q","r","s","t","u","v","w","x","y","z">>
Digits == {"0","1","2","3","4","5","6","7","8","9"}
Letters == { UpperCase[i] : i \in 1..26 } \cup { LowerCase[i] : i \in 1..26 }

\* the lower-case letter of every upper-case letter
LowerOf == [c \in { UpperCase[i] : i \in 1..26 } |->
               LowerCase[CHOOSE i \in 1..26 : UpperCase[i] = c]]

\* str.lower() on one character
LowerChar(c) == IF c \in DOMAIN LowerOf THEN LowerOf[c] ELSE c

\* str.lower()
Lower(s) == [i \in 1..Len(s) |-> LowerChar(s[i])]

\* str.rfind(c): the last index of c in s, 0 when absent (Python's -1)
RFind(s, c) ==
    IF \E i \in 1..Len(s) : s[i] = c
    THEN CHOOSE i \in 1..Len(s) : s[i] = c /\ \A j \in (i+1)..Len(s) : s[j] # c
    ELSE 0

\* PurePath.name: the final path component
PathName(s) == SubSeq(s, RFind(s, "/") + 1, Len(s))

\* PurePath.suffix[1:]: the text after the last dot of the final component,
\* empty when the dot is missing, leading or trailing
Suffix(s) ==
    LET name == PathName(s)
        i    == RFind(name, ".")
    IN  IF 1 < i /\ i < Len(name) THEN SubSeq(name, i + 1, Len(name)) ELSE <<>>

\* Python truthiness of the uploaded_file_name argument
Truthy(x) == x # None /\ x # <<>>

----------------------------------------------------------------------------
(* Configuration: the [read_functions] table of looksee.toml.              *)

ext_csv     == <<"c","s","v">>
ext_tsv     == <<"t","s","v">>
ext_parquet == <<"p","a","r","q","u","e","t">>
ext_json    == <<"j","s","o","n">>

ReadFunctions ==
    (ext_csv :> "read_csv_auto") @@ (ext_tsv :> "read_csv_auto") @@
    (ext_parquet :> "read_parquet") @@ (ext_json :> "read_json_auto")

\* the value dict.get answers for a missing key; falsy
NoFunction == ""

\* LookSee._get_duckdb_read_function
GetDuckdbReadFunction(file_type) ==
    LET k == Lower(file_type)
    IN  IF k \in DOMAIN ReadFunctions THEN ReadFunctions[k] ELSE NoFunction

----------------------------------------------------------------------------
(* The sources.  Column names are character sequences; every value of a    *)
(* column is a natural number standing for the value at that rank of the   *)
(* column's order, or NULL.  loose is the set of rows whose value the      *)
(* engine took in but whose cast to the declared type answers NULL.        *)

c_id       == <<"i","d">>
c_category == <<"c","a","t","e","g","o","r","y">>
c_age      == <<"a","g","e">>
c_born     == <<"b","o","r","n">>
c_first    == <<"f","i","r","s","t"," ","n","a","m","e">>
c_score    == <<"s","c","o","r","e">>
c_quoted   == <<"a","\"","b">>
c_qty      == <<"q","t","y">>
c_price    == <<"p","r","i","c","e">>
c_flag     == <<"f","l","a","g">>
c_missing  == <<"z","z">>

Column(n, t, v, l) == [name |-> n, type |-> t, vals |-> v, loose |-> l]

\* the demo file: six rows, a key, a three-valued text column, a column
\* with a null, a date column
People ==
    << Column(c_id,       "BIGINT",  <<1, 2, 3, 4, 5, 6>>,         {}),
       Column(c_category, "VARCHAR", <<1, 1, 2, 2, 3, 3>>,         {}),
       Column(c_age,      "BIGINT",  <<30, NULL, 25, 30, 41, 25>>, {}),
       Column(c_born,     "DATE",    <<3, 1, 2, 2, NULL, 1>>,      {}) >>

\* a CSV whose header has a name with a space
Survey ==
    << Column(c_first, "VARCHAR", <<1, 2, 2>>,    {}),
       Column(c_score, "DOUBLE",  <<5, NULL, 4>>, {}) >>

\* a CSV whose header has a name with a double quote in it ("a""b")
Events ==
    << Column(c_quoted, "BIGINT", <<1, 2>>, {}) >>

\* a Parquet file: five distinct values and a null, a fixed-point column,
\* a constant column, and rows that do not survive the cast to their type
Orders ==
    << Column(c_qty,   "INTEGER",       <<1, 2, 3, 4, 5, NULL>>, {3, 5}),
       Column(c_price, "DECIMAL(18,3)", <<7, 7, 9, 8, 9, 8>>,    {}),
       Column(c_score, "DOUBLE",        <<2, 2, 2, 2, 2, 2>>,    {}),
       Column(c_flag,  "BOOLEAN",       <<0, 1, NULL, 1, 0, 0>>, {2}) >>

NoTable == "none"

\* what a file holds: its format and the table the matching reader makes
\* of it; nothing can be read from the path before the first upload
Unreadable == "unreadable"
Contents ==
    [ absent  |-> [fmt |-> Unreadable, cols |-> <<>>],
      people  |-> [fmt |-> "csv",      cols |-> People],
      survey  |-> [fmt |-> "csv",      cols |-> Survey],
      events  |-> [fmt |-> "csv",      cols |-> Events],
      orders  |-> [fmt |-> "parquet",  cols |-> Orders] ]

p_csv     == <<"d","/","p",".","c","s","v">>
p_tmp     == <<"t","e","m","p","_","f","i","l","e">>
u_csv     == <<"U",".","C","S","V">>
u_parquet == <<"u",".","p","a","r","q","u","e","t">>
u_xyz     == <<"u",".","x","y","z">>

\* what the temporary upload path can be overwritten with
Uploads == {"survey", "events", "orders"}

\* the content a path holds: the upload path changes, the demo file does not
ContentAt(path, f) == IF path = p_tmp THEN f ELSE "people"

\* the argument lists ingest_data is called with: (file_path) and
\* (file_path, uploaded_file_name)
Calls ==
    { <<p_csv>>, <<p_csv, None>>, <<p_csv, u_xyz>>, <<p_tmp, u_csv>>, <<p_tmp, u_parquet>> }

----------------------------------------------------------------------------
(* The engine, by what its statements answer.                              *)

\* CREATE TABLE ... AS SELECT * FROM read_function('file_path', ...):
\* TRUE when the reader makes a table of the content, FALSE when it raises
EngineReads(read_function, content) ==
    \/ read_function = "read_csv_auto"  /\ content.fmt = "csv"
    \/ read_function = "read_json_auto" /\ content.fmt = "json"
    \/ read_function = "read_parquet"   /\ content.fmt = "parquet"

\* the rows of duckdb_columns() / information_schema.columns for the table
CatalogColumns(tbl) == IF tbl = NoTable THEN <<>> ELSE Contents[tbl].cols

\* {column_name} interpolated bare into SQL parses as one column reference
ParsesBare(name) ==
    /\ Len(name) > 0
    /\ name[1] \notin Digits
    /\ \A i \in 1..Len(name) : name[i] \in Letters \cup Digits \cup {"_"}

\* "{column_name}" interpolated between double quotes parses as one identifier
ParsesQuoted(name) == \A i \in 1..Len(name) : name[i] # "\""

NonNull(col) == { i \in 1..Len(col.vals) : col.vals[i] # NULL }
Distinct(col) == { col.vals[i] : i \in NonNull(col) }

SetMin(S) == IF S = {} THEN NULL ELSE CHOOSE x \in S : \A y \in S : x <= y
SetMax(S) == IF S = {} THEN NULL ELSE CHOOSE x \in S : \A y \in S : y <= x

RECURSIVE SortAsc(_)
\* ORDER BY over distinct non-null values
SortAsc(S) == IF S = {} THEN <<>> ELSE <<SetMin(S)>> \o SortAsc(S \ {SetMin(S)})

RECURSIVE SumOver(_, _, _)
SumOver(col, rows, sq) ==
    IF rows = {} THEN 0
    ELSE LET i == CHOOSE r \in rows : TRUE
             v == col.vals[i]
         IN  (IF sq THEN v * v ELSE v) + SumOver(col, rows \ {i}, sq)

\* AVG as the exact fraction sum / count, NULL over no values
Avg(col) ==
    LET n == Cardinality(NonNull(col))
    IN  IF n = 0 THEN NULL ELSE [num |-> SumOver(col, NonNull(col), FALSE), den |-> n]

\* STDDEV (sample): NULL below two values, else its square as a fraction
Stddev(col) ==
    LET n  == Cardinality(NonNull(col))
        s  == SumOver(col, NonNull(col), FALSE)
        s2 == SumOver(col, NonNull(col), TRUE)
    IN  IF n < 2 THEN NULL ELSE [var_num |-> n * s2 - s * s, var_den |-> n * (n - 1)]

\* SELECT COUNT(*) ... WHERE CAST(c AS type) IS NULL AND c IS NOT NULL
InvalidCount(col) == Cardinality(col.loose \cap NonNull(col))

----------------------------------------------------------------------------
(* LookSee.validate_column_types: answers [raised, findings, calls].       *)

Finding(col) ==
    [column_name |-> col.name, data_type |-> col.type, count |-> InvalidCount(col)]

\* the test of line 98
HasFinding(col) == InvalidCount(col) > 0

ValidateColumnTypes(tbl) ==
    LET columns == CatalogColumns(tbl)
        bad     == { i \in 1..Len(columns) : ~ParsesBare(columns[i].name) }
        stop    == IF bad = {} THEN Len(columns) ELSE SetMin(bad)
        flagged == SelectSeq(columns, HasFinding)
    IN  [ raised   |-> bad # {},
          findings |-> IF bad = {} THEN [i \in 1..Len(flagged) |-> Finding(flagged[i])]
                       ELSE <<>>,
          calls    |-> <<"COLUMNS">> \o [i \in 1..stop |-> "COUNT"] ]

----------------------------------------------------------------------------
(* LookSee.ingest_data below the cache: answers the returned value, the    *)
(* table left behind, the engine statements executed, whether CREATE       *)
(* succeeded and the validation findings.                                  *)

Outcome(r, t, c, cr, fd) ==
    [ret |-> r, table |-> t, calls |-> c, created |-> cr, findings |-> fd]

FilePath(args) == args[1]
UploadedFileName(args) == IF Len(args) >= 2 THEN args[2] ELSE None

\* lines 44-47
FileType(args) ==
    IF Truthy(UploadedFileName(args)) THEN Suffix(UploadedFileName(args))
    ELSE Suffix(FilePath(args))

\* the body with DROP TABLE moved ahead of the read-function lookup
IngestBodyDropFirst(args, f, tbl) ==
    LET read_function == GetDuckdbReadFunction(FileType(args))
        src           == ContentAt(FilePath(args), f)
        v             == ValidateColumnTypes(src)
    IN  IF read_function = NoFunction
        THEN Outcome(FALSE, NoTable, <<"DROP">>, FALSE, <<>>)
        ELSE IF ~EngineReads(read_function, Contents[src])
        THEN Outcome(FALSE, NoTable, <<"DROP", "CREATE">>, FALSE, <<>>)
        ELSE Outcome(~v.raised, src, <<"DROP", "CREATE">> \o v.calls, TRUE, v.findings)

\* the body as written: lookup (48-51), DROP (53), CREATE (55-61),
\* validation (65-69), True (71); any exception gives False (73-75)
IngestBody(args, f, tbl) ==
    LET read_function == GetDuckdbReadFunction(FileType(args))
        src           == ContentAt(FilePath(args), f)
        v             == ValidateColumnTypes(src)
    IN  IF read_function = NoFunction
        THEN Outcome(FALSE, tbl, <<>>, FALSE, <<>>)
        ELSE IF ~EngineReads(read_function, Contents[src])
        THEN Outcome(FALSE, NoTable, <<"DROP", "CREATE">>, FALSE, <<>>)
        ELSE Outcome(~v.raised, src, <<"DROP", "CREATE">> \o v.calls, TRUE, v.findings)

\* a cache that never answers
CacheLookupNever(m, args) == {}

\* functools.cache: the key is the positional argument list as passed
CacheLookup(m, args) == { e[2] : e \in { x \in m : x[1] = args } }

\* the (file_path, uploaded_file_name) pair a call denotes
PairOf(args) == <<FilePath(args), UploadedFileName(args)>>

----------------------------------------------------------------------------
(* LookSee.extract_metadata: answers whether a query raised inside the try *)
(* and the list assigned to self.metadata.                                 *)

MetadataRecord(col) ==
    [ column_name  |-> col.name,
      data_type    |-> col.type,
      total_rows   |-> Len(col.vals),
      null_count   |-> Len(col.vals) - Cardinality(NonNull(col)),
      unique_count |-> Cardinality(Distinct(col)) ]

ExtractMetadata(tbl) ==
    LET columns == CatalogColumns(tbl)
        error   == \E i \in 1..Len(columns) : ~ParsesQuoted(columns[i].name)
    IN  [ propagated |-> FALSE,
          error      |-> error,
          rows       |-> IF error THEN <<>>
                         ELSE [i \in 1..Len(columns) |-> MetadataRecord(columns[i])] ]

----------------------------------------------------------------------------
(* LookSee.column_summary.                                                 *)

\* the threshold of line 193 and the LIMIT of line 198
DistinctLimit == 5

NumericTypes == {"INTEGER", "BIGINT", "DOUBLE", "DECIMAL"}

EmptyRecord == [k \in {} |-> NULL]

\* the aggregate query chosen by the declared type (lines 159-188)
Aggregates(col) ==
    LET counts == [ unique_count |-> Cardinality(Distinct(col)),
                    null_count   |-> Len(col.vals) - Cardinality(NonNull(col)) ]
        range  == [ min_value |-> SetMin(Distinct(col)),
                    max_value |-> SetMax(Distinct(col)) ]
    IN  IF col.type \in NumericTypes
        THEN range @@ [mean_value |-> Avg(col), std_dev |-> Stddev(col)] @@ counts
        ELSE IF col.type = "DATE" THEN range @@ counts
        ELSE counts

\* SELECT DISTINCT c ... ORDER BY c LIMIT 5: NULL is one of the distinct
\* rows; the engine's default null order puts it first or last
DistinctValues(col, nulls_first) ==
    LET sorted == SortAsc(Distinct(col))
        nulls  == IF NonNull(col) # DOMAIN col.vals THEN <<NULL>> ELSE <<>>
        rows   == IF nulls_first THEN nulls \o sorted ELSE sorted \o nulls
    IN  SubSeq(rows, 1, IF Len(rows) < DistinctLimit THEN Len(rows) ELSE DistinctLimit)

\* the body of the try: error when a statement or the [0] on a missing row raises
SummaryBody(tbl, column_name, nulls_first) ==
    LET columns == CatalogColumns(tbl)
        found   == { i \in 1..Len(columns) : columns[i].name = column_name }
        col     == columns[CHOOSE i \in found : TRUE]
        summary == Aggregates(col)
    IN  IF found = {} \/ ~ParsesBare(column_name)
        THEN [error |-> TRUE, summary |-> EmptyRecord]
        ELSE [ error   |-> FALSE,
               summary |-> IF summary.unique_count <= DistinctLimit
                           THEN summary @@
                                ("distinct_values" :> DistinctValues(col, nulls_first))
                           ELSE summary ]

\* the method without its except clause
ColumnSummaryUncaught(tbl, column_name, nulls_first) ==
    LET b == SummaryBody(tbl, column_name, nulls_first)
    IN  [propagated |-> b.error, error |-> b.error, ret |-> b.summary]

\* the method: the body under try, {} from the except clause (204-206)
ColumnSummary(tbl, column_name, nulls_first) ==
    LET b == SummaryBody(tbl, column_name, nulls_first)
    IN  [ propagated |-> FALSE,
          error      |-> b.error,
          ret        |-> IF b.error THEN EmptyRecord ELSE b.summary ]

----------------------------------------------------------------------------
(* The calls.                                                              *)

\* the names a summary is asked for: the current table's columns, as the
\* callers enumerate them, and one name no table has
ColumnNames(tbl) ==
    { CatalogColumns(tbl)[i].name : i \in 1..Len(CatalogColumns(tbl)) } \cup {c_missing}

NoCall == [op |-> "none"]

Init ==
    /\ fs = "absent"
    /\ table = NoTable
    /\ memo = {}
    /\ metadata = [held |-> FALSE, rows |-> <<>>]
    /\ lastIngest = NoCall
    /\ lastQuery = NoCall
    /\ firstArgs = {}
    /\ firstPair = {}

\* app/main.py writes the uploaded buffer over the temporary path
WriteFile(c) ==
    /\ fs # c
    /\ fs' = c
    /\ UNCHANGED <<table, memo, metadata, lastIngest, lastQuery, firstArgs, firstPair>>

\* ingest_data under @cache
IngestData(args) ==
    LET cached == CacheLookup(memo, args)
        hit    == cached # {}
        o      == IF hit
                  THEN Outcome(CHOOSE r \in cached : TRUE, table, <<>>, FALSE, <<>>)
                  ELSE IngestBody(args, fs, table)
    IN  /\ table' = o.table
        /\ memo' = IF hit THEN memo ELSE memo \cup {<<args, o.ret>>}
        /\ lastIngest' =
              [ op         |-> "ingest_data",
                args       |-> args,
                ret        |-> o.ret,
                calls      |-> o.calls,
                created    |-> o.created,
                findings   |-> o.findings,
                propagated |-> FALSE ]
        /\ lastQuery' = NoCall
        /\ firstArgs' = IF \E e \in firstArgs : e[1] = args THEN firstArgs
                        ELSE firstArgs \cup {<<args, o.ret>>}
        /\ firstPair' = IF \E e \in firstPair : e[1] = PairOf(args) THEN firstPair
                        ELSE firstPair \cup {<<PairOf(args), o.ret>>}
        /\ UNCHANGED <<fs, metadata>>

ExtractMetadataCall ==
    LET r == ExtractMetadata(table)
    IN  /\ metadata' = [held |-> TRUE, rows |-> r.rows]
        /\ lastQuery' = [ op |-> "extract_metadata", propagated |-> r.propagated,
                          error |-> r.error ]
        /\ UNCHANGED <<fs, table, memo, lastIngest, firstArgs, firstPair>>

ColumnSummaryCall(column_name, nulls_first) ==
    LET r == ColumnSummary(table, column_name, nulls_first)
    IN  /\ lastQuery' = [ op |-> "column_summary", column |-> column_name,
                          propagated |-> r.propagated, error |-> r.error,
                          ret |-> r.ret ]
        /\ UNCHANGED <<fs, table, memo, metadata, lastIngest, firstArgs, firstPair>>

Next ==
    \/ \E c \in Uploads : WriteFile(c)
    \/ \E args \in Calls : IngestData(args)
    \/ ExtractMetadataCall
    \/ \E column_name \in ColumnNames(table), nulls_first \in BOOLEAN :
          ColumnSummaryCall(column_name, nulls_first)

Spec == Init /\ [][Next]_vars

----------------------------------------------------------------------------
(* What the claims speak of.                                               *)

\* the resolved extension of a call is a key of the dispatch table
Supported(args) == Lower(FileType(args)) \in DOMAIN ReadFunctions

\* the source a call names is one its extension's reader makes a table of
WellFormed(args, f) ==
    /\ Supported(args)
    /\ EngineReads(ReadFunctions[Lower(FileType(args))],
                   Contents[ContentAt(FilePath(args), f)])

\* the data of the source a call names
SourceOf(args, f) == ContentAt(FilePath(args), f)

\* the step just taken is a call of ingest_data with these arguments, of
\* extract_metadata, of column_summary (a call that changes nothing at all
\* repeats the step that led to the state)
IngestStep(args) ==
    /\ fs' = fs
    /\ lastQuery' = NoCall
    /\ lastIngest'.op = "ingest_data"
    /\ lastIngest'.args = args
ExtractStep == fs' = fs /\ lastIngest' = lastIngest /\ lastQuery'.op = "extract_metadata"
SummaryStep == fs' = fs /\ lastIngest' = lastIngest /\ lastQuery'.op = "column_summary"

IsIngest == lastIngest.op = "ingest_data"
IsExtract == lastQuery.op = "extract_metadata"
IsSummary == lastQuery.op = "column_summary"

\* the column of the current table the last summary was asked for
HasColumn(tbl, name) ==
    \E i \in 1..Len(CatalogColumns(tbl)) : CatalogColumns(tbl)[i].name = name
ColumnOf(tbl, name) ==
    CatalogColumns(tbl)[CHOOSE i \in 1..Len(CatalogColumns(tbl)) :
                            CatalogColumns(tbl)[i].name = name]

Ascending(seq) ==
    \A i, j \in 1..Len(seq) :
        (i < j /\ seq[i] # NULL /\ seq[j] # NULL) => seq[i] < seq[j]

----------------------------------------------------------------------------
(* C1: every ingest_data call on a well-formed source of a supported       *)
(* extension, after any earlier calls, returns True and leaves a table     *)
(* under the configured name.                                              *)
C1_WellFormedIngestSucceeds ==
    [][ \A args \in Calls :
          (IngestStep(args) /\ WellFormed(args, fs))
             => (lastIngest'.ret = TRUE /\ table' # NoTable) ]_vars

(* C2, as stated: a call whose (file_path, uploaded_file_name) pair was    *)
(* given to an earlier call returns what the first such call returned and  *)
(* runs no engine statement.                                               *)
C2_SamePairIsMemoised ==
    [][ \A args \in Calls :
          (IngestStep(args) /\ \E e \in firstPair : e[1] = PairOf(args))
             => /\ lastIngest'.calls = <<>>
                /\ \A e \in firstPair :
                      e[1] = PairOf(args) => lastIngest'.ret = e[2] ]_vars

(* C2, amended: a call whose argument list, as passed, was given to an     *)
(* earlier call returns what the first such call returned, True or False,  *)
(* and runs no engine statement.                                           *)
C2_SameArgumentsAreMemoised ==
    [][ \A args \in Calls :
          (IngestStep(args) /\ \E e \in firstArgs : e[1] = args)
             => /\ lastIngest'.calls = <<>>
                /\ \A e \in firstArgs : e[1] = args => lastIngest'.ret = e[2] ]_vars

\* a repeated call on a supported extension answered False from the cache,
\* while the file it names has since become one the reader accepts
C2_Witness ==
    /\ IsIngest
    /\ Supported(lastIngest.args)
    /\ lastIngest.calls = <<>>
    /\ lastIngest.ret = FALSE
    /\ WellFormed(lastIngest.args, fs)

(* C3: ingest_data on an unsupported resolved extension returns False and  *)
(* leaves the table as it was; DROP and CREATE run only in calls whose     *)
(* extension is in the dispatch table.                                     *)
C3_UnsupportedLeavesTable ==
    [][ \A args \in Calls :
          IngestStep(args) =>
             /\ ~Supported(args) => (lastIngest'.ret = FALSE /\ table' = table)
             /\ (\E i \in 1..Len(lastIngest'.calls) :
                     lastIngest'.calls[i] \in {"DROP", "CREATE"}) => Supported(args) ]_vars

\* an unsupported call answered False with the earlier table still there
C3_Witness ==
    /\ IsIngest
    /\ ~Supported(lastIngest.args)
    /\ lastIngest.ret = FALSE
    /\ lastIngest.calls = <<>>
    /\ table = "people"

(* C4: every ingest_data call either returns True with the table replaced  *)
(* by the new source's data, or returns False with the table exactly as    *)
(* it was before the call.                                                 *)
C4_AllOrNothing ==
    [][ \A args \in Calls :
          IngestStep(args) =>
             \/ lastIngest'.ret = TRUE /\ table' = SourceOf(args, fs)
             \/ lastIngest'.ret = FALSE /\ table' = table ]_vars

(* C5: no failure inside ingest_data, extract_metadata or column_summary   *)
(* reaches the caller: an engine error during ingestion yields False,      *)
(* during extraction an empty held list, during summarization (a missing   *)
(* column included, with or without a table) an empty record.              *)
C5_NoFailurePropagates ==
    [][ /\ \A args \in Calls :
             IngestStep(args) =>
                /\ ~lastIngest'.propagated
                /\ ( /\ ~\E e \in firstArgs : e[1] = args
                     /\ Supported(args)
                     /\ \/ ~WellFormed(args, fs)
                        \/ \E i \in 1..Len(Contents[SourceOf(args, fs)].cols) :
                              ~ParsesBare(Contents[SourceOf(args, fs)].cols[i].name) )
                   => lastIngest'.ret = FALSE
        /\ ExtractStep =>
                /\ ~lastQuery'.propagated
                /\ metadata'.held
                /\ (\E i \in 1..Len(CatalogColumns(table)) :
                        ~ParsesQuoted(CatalogColumns(table)[i].name))
                   => metadata'.rows = <<>>
        /\ SummaryStep =>
                /\ ~lastQuery'.propagated
                /\ ( \/ ~HasColumn(table, lastQuery'.column)
                     \/ ~ParsesBare(lastQuery'.column) )
                   => DOMAIN lastQuery'.ret = {} ]_vars

\* a summary asked for a column that does not exist, with no table at all
C5_Witness ==
    /\ IsSummary
    /\ table = NoTable
    /\ lastQuery.column = c_missing
    /\ lastQuery.error
    /\ DOMAIN lastQuery.ret = {}

NumericFamily == {"INTEGER", "BIGINT", "DOUBLE", "DECIMAL(18,3)"}

(* C6: column_summary on a column of the numeric family (integer,          *)
(* big-integer, floating-point, fixed-point decimal) returns a record with *)
(* min_value, max_value, mean_value, std_dev, unique_count and null_count; *)
(* on a textual column its statistics are unique_count and null_count      *)
(* only.                                                                   *)
C6_SummaryKeysByFamily ==
    (IsSummary /\ HasColumn(table, lastQuery.column)) =>
        LET col == ColumnOf(table, lastQuery.column)
        IN  /\ col.type \in NumericFamily =>
                {"min_value", "max_value", "mean_value", "std_dev",
                 "unique_count", "null_count"} \subseteq DOMAIN lastQuery.ret
            /\ col.type = "VARCHAR" =>
                DOMAIN lastQuery.ret \ {"distinct_values"}
                    = {"unique_count", "null_count"}

(* C7: when a column's distinct count is at most 5 the summary has a       *)
(* distinct_values list of that length, sorted ascending, nulls in the     *)
(* column or not; above 5 it has no distinct_values key.                   *)
C7_DistinctValuesList ==
    (IsSummary /\ HasColumn(table, lastQuery.column)) =>
        LET col == ColumnOf(table, lastQuery.column)
            k   == Cardinality(Distinct(col))
        IN  /\ k <= DistinctLimit =>
                /\ "distinct_values" \in DOMAIN lastQuery.ret
                /\ Len(lastQuery.ret.distinct_values) = k
                /\ Ascending(lastQuery.ret.distinct_values)
            /\ k > DistinctLimit => "distinct_values" \notin DOMAIN lastQuery.ret

(* C8: whenever the engine has created the table from the source,          *)
(* ingest_data returns True and the new table stays, whatever the          *)
(* validation finds; a finding is produced for a column exactly when its   *)
(* mismatched row count is above 0.                                        *)
C8_ValidationIsDiagnostic ==
    [][ \A args \in Calls :
          ( /\ IngestStep(args)
            /\ ~\E e \in firstArgs : e[1] = args
            /\ WellFormed(args, fs) )
          => LET cols == Contents[SourceOf(args, fs)].cols
             IN  /\ lastIngest'.ret = TRUE
                 /\ table' = SourceOf(args, fs)
                 /\ \A i \in 1..Len(cols) :
                       (Cardinality(cols[i].loose \cap NonNull(cols[i])) > 0)
                          <=> \E j \in 1..Len(lastIngest'.findings) :
                                 lastIngest'.findings[j].column_name = cols[i].name ]_vars

(* C9: after extract_metadata following a successful ingest, the held      *)
(* metadata has one record for every column of the current table, each     *)
(* with total_rows the table's row count and null_count plus the non-null  *)
(* count equal to total_rows, and nothing of an earlier extraction.        *)
C9_MetadataCoversTable ==
    (IsExtract /\ IsIngest /\ lastIngest.ret = TRUE) =>
        LET cols == CatalogColumns(table)
        IN  /\ metadata.held
            /\ Len(metadata.rows) = Len(cols)
            /\ \A i \in 1..Len(cols) :
                  /\ metadata.rows[i].column_name = cols[i].name
                  /\ metadata.rows[i].total_rows = Len(cols[i].vals)
                  /\ metadata.rows[i].null_count + Cardinality(NonNull(cols[i]))
                        = metadata.rows[i].total_rows

(* C10: whenever the most recent ingest_data call returned True, the       *)
(* table holds the data of the source that call named.                     *)
C10_TableIsLatestSource ==
    [][ \A args \in Calls :
          (IngestStep(args) /\ lastIngest'.ret = TRUE)
             => table' = SourceOf(args, fs) ]_vars

====
